---- MODULE Spec2Model ----
\* A model of wordle_api_solver_norvig.py: the feedback interpreter
\* (process_guess_result), the z3 constraint accumulator and the guessing
\* session (solve_wordle_api_norvig: Norvig's opening guesses, then z3 guesses).
EXTENDS Integers, Sequences, FiniteSets, TLC

\* ------------------------------------------------------------------ bounds
\* Words of the interpreter specification have 1..MaxWordLen letters drawn
\* from the first AlphabetBound letters of the alphabet.
MaxWordLen == 3
AlphabetBound == 3
\* A session's opening list is a prefix, of at most MaxOpening words, of
\* Norvig's list; its attempt budget is drawn from 1..MaxBudget.
MaxOpening == 4
MaxBudget == 14

\* ------------------------------------------------------- program constants
ANSWER_LEN == 5

alphabet ==
  << "a", "b", "c", "d", "e", "f", "g", "h", "i", "j", "k", "l", "m",
     "n", "o", "p", "q", "r", "s", "t", "u", "v", "w", "x", "y", "z" >>

\* ord(c) for a lowercase letter: ord("a") = 97.
ord(c) == 96 + (CHOOSE k \in DOMAIN alphabet : alphabet[k] = c)

\* z3's soft-constraint weight.
SOFT_WEIGHT == 100

\* Python's None where a word or a list is expected: no word, no answer.
None == << >>

\* ------------------------------------------------------------ sequences
Range(s) == { s[i] : i \in DOMAIN s }

Last(s) == s[Len(s)]

\* The subsequence of s at the positions (a set of indices), in order.
RECURSIVE Pick(_, _, _)
Pick(s, keep, i) ==
  IF i > Len(s) THEN << >>
  ELSE (IF i \in keep THEN << s[i] >> ELSE << >>) \o Pick(s, keep, i + 1)

\* Occurrences of character c in a word.
Count(word, c) == Cardinality({ i \in DOMAIN word : word[i] = c })

\* ------------------------------------------------ the external evaluator
\* A well-formed answer has one record per slot, in slot order, carrying the
\* slot (0-based), the guessed character and the outcome.
Outcomes == { "correct", "present", "absent" }

FeedbackOf(guess, outcome) ==
  [ i \in DOMAIN guess |->
      [ slot |-> i - 1, guess |-> guess[i], result |-> outcome[i] ] ]

\* Truthful Wordle feedback of guess against secret: equal slots are correct;
\* of the other slots of a character, the leftmost ones are present for as
\* long as the secret has occurrences of it left that no correct slot used.
TruthfulOutcome(guess, secret) ==
  [ i \in DOMAIN guess |->
      IF guess[i] = secret[i] THEN "correct"
      ELSE LET c == guess[i]
               avail == Cardinality({ j \in DOMAIN secret :
                                        secret[j] = c /\ guess[j] # c })
               rank == Cardinality({ j \in DOMAIN guess :
                                       j < i /\ guess[j] = c /\ secret[j] # c })
           IN IF rank < avail THEN "present" ELSE "absent" ]

Feedback(guess, secret) == FeedbackOf(guess, TruthfulOutcome(guess, secret))

\* --------------------------------------------------- process_guess_result
\* guess_char_freq: occurrences of each character in the guess.
guess_char_freq(guess) ==
  [ c \in Range(guess) |-> Count(guess, c) ]

\* present_correct_freq: a character is a key only when some record of it is
\* correct or present; its value counts those records.
present_correct_freq(guess_result) ==
  LET hit(c) == { i \in DOMAIN guess_result :
                    /\ guess_result[i].guess = c
                    /\ guess_result[i].result \in { "correct", "present" } }
      keys == { guess_result[i].guess : i \in
                  { j \in DOMAIN guess_result :
                      guess_result[j].result \in { "correct", "present" } } }
  IN [ c \in keys |-> Cardinality(hit(c)) ]

\* First pass: the (slot, character) pairs of the records with one outcome,
\* in record order.
\* Variant: only the first record of each character is kept.
SlotsWith_mut(guess_result, outcome) ==
  LET keep == { i \in DOMAIN guess_result :
                  /\ guess_result[i].result = outcome
                  /\ \A j \in 1 .. (i - 1) :
                        guess_result[j].guess # guess_result[i].guess }
      picked == Pick(guess_result, keep, 1)
  IN [ i \in DOMAIN picked |-> << picked[i].slot, picked[i].guess >> ]

SlotsWith(guess_result, outcome) ==
  LET keep == { i \in DOMAIN guess_result : guess_result[i].result = outcome }
      picked == Pick(guess_result, keep, 1)
  IN [ i \in DOMAIN picked |-> << picked[i].slot, picked[i].guess >> ]

\* Second pass, a character proven elsewhere: (slot, character, count).
\* Variant: the count is one too small.
at_most_mut(guess, guess_result) ==
  LET gcf == guess_char_freq(guess)
      pcf == present_correct_freq(guess_result)
  IN { << guess_result[i].slot, guess_result[i].guess,
          pcf[guess_result[i].guess] - 1 >> :
         i \in { j \in DOMAIN guess_result :
                   /\ guess_result[j].result = "absent"
                   /\ guess_result[j].guess \in DOMAIN pcf
                   /\ gcf[guess_result[j].guess] > pcf[guess_result[j].guess] } }

\* Variant: the count is kept while the records are read, in a single pass.
at_most_running(guess, guess_result) ==
  LET gcf == guess_char_freq(guess)
      pcf == present_correct_freq(guess_result)
      seen(i) == Cardinality({ j \in 1 .. (i - 1) :
                                 /\ guess_result[j].guess = guess_result[i].guess
                                 /\ guess_result[j].result
                                      \in { "correct", "present" } })
  IN { << guess_result[i].slot, guess_result[i].guess, seen(i) >> :
         i \in { j \in DOMAIN guess_result :
                   /\ guess_result[j].result = "absent"
                   /\ guess_result[j].guess \in DOMAIN pcf
                   /\ gcf[guess_result[j].guess] > pcf[guess_result[j].guess] } }

at_most(guess, guess_result) ==
  LET gcf == guess_char_freq(guess)
      pcf == present_correct_freq(guess_result)
  IN { << guess_result[i].slot, guess_result[i].guess,
          pcf[guess_result[i].guess] >> :
         i \in { j \in DOMAIN guess_result :
                   /\ guess_result[j].result = "absent"
                   /\ guess_result[j].guess \in DOMAIN pcf
                   /\ gcf[guess_result[j].guess] > pcf[guess_result[j].guess] } }

\* Second pass, a character proven nowhere: it is not in the answer at all.
\* Variant: every absent character is excluded, proven elsewhere or not.
not_in_answer_mut(guess_result) ==
  { guess_result[i].guess :
      i \in { j \in DOMAIN guess_result : guess_result[j].result = "absent" } }

not_in_answer(guess_result) ==
  LET pcf == present_correct_freq(guess_result)
  IN { guess_result[i].guess :
         i \in { j \in DOMAIN guess_result :
                   /\ guess_result[j].result = "absent"
                   /\ guess_result[j].guess \notin DOMAIN pcf } }

process_guess_result(guess, guess_result) ==
  [ guess_character_not_in_answer |-> not_in_answer(guess_result),
    guess_character_in_answer_right_position |->
      SlotsWith(guess_result, "correct"),
    guess_character_in_answer_wrong_position |->
      SlotsWith(guess_result, "present"),
    guess_character_in_answer_at_most |-> at_most(guess, guess_result) ]

\* ------------------------------------------------------ the z3 solver
\* A hard constraint over the position variables letters[0..n-1], whose values
\* are the integers ord(c) - 97:
\*   eq:     letters[i] == val              (slots = {i})
\*   ne:     letters[i] != val              (slots = {i})
\*   or:     z3.Or([letters[j] == val for j in slots])
\*   atmost: z3.AtMost(letters[j] == val for j in slots, bound)
Constraint(op, slots, val, bound) ==
  [ op |-> op, slots |-> slots, val |-> val, bound |-> bound ]

\* The value of a constraint under an assignment m (m[j + 1] is letters[j]).
Holds(m, c) ==
  CASE c.op = "eq" -> \A j \in c.slots : m[j + 1] = c.val
    [] c.op = "ne" -> \A j \in c.slots : m[j + 1] # c.val
    [] c.op = "or" -> \E j \in c.slots : m[j + 1] = c.val
    [] c.op = "atmost" ->
         Cardinality({ j \in c.slots : m[j + 1] = c.val }) <= c.bound

\* "Add constraints from the guess": what one guess's derived constraints add
\* to a solver with n position variables.
\* Variant: the loop over guess_character_not_in_answer is missing.
AddedConstraints_no_exclusion(n, derived) ==
  LET slots == 0 .. (n - 1) IN
  { Constraint("eq", { p[1] }, ord(p[2]) - 97, 0) :
      p \in Range(derived.guess_character_in_answer_right_position) }
  \cup
  { Constraint("ne", { p[1] }, ord(p[2]) - 97, 0) :
      p \in Range(derived.guess_character_in_answer_wrong_position) }
  \cup
  { Constraint("or", slots \ { p[1] }, ord(p[2]) - 97, 0) :
      p \in Range(derived.guess_character_in_answer_wrong_position) }
  \cup
  { Constraint("ne", { t[1] }, ord(t[2]) - 97, 0) :
      t \in derived.guess_character_in_answer_at_most }
  \cup
  { Constraint("atmost", slots, ord(t[2]) - 97, t[3]) :
      t \in derived.guess_character_in_answer_at_most }

\* Variant: the cardinality constraint is never added.
AddedConstraints_no_cardinality(n, derived) ==
  LET slots == 0 .. (n - 1) IN
  { Constraint("eq", { p[1] }, ord(p[2]) - 97, 0) :
      p \in Range(derived.guess_character_in_answer_right_position) }
  \cup
  { Constraint("ne", { p[1] }, ord(p[2]) - 97, 0) :
      p \in Range(derived.guess_character_in_answer_wrong_position) }
  \cup
  { Constraint("or", slots \ { p[1] }, ord(p[2]) - 97, 0) :
      p \in Range(derived.guess_character_in_answer_wrong_position) }
  \cup
  { Constraint("ne", { j }, ord(c) - 97, 0) :
      c \in derived.guess_character_not_in_answer, j \in slots }
  \cup
  { Constraint("ne", { t[1] }, ord(t[2]) - 97, 0) :
      t \in derived.guess_character_in_answer_at_most }

AddedConstraints(n, derived) ==
  LET slots == 0 .. (n - 1) IN
  { Constraint("eq", { p[1] }, ord(p[2]) - 97, 0) :
      p \in Range(derived.guess_character_in_answer_right_position) }
  \cup
  { Constraint("ne", { p[1] }, ord(p[2]) - 97, 0) :
      p \in Range(derived.guess_character_in_answer_wrong_position) }
  \cup
  { Constraint("or", slots \ { p[1] }, ord(p[2]) - 97, 0) :
      p \in Range(derived.guess_character_in_answer_wrong_position) }
  \cup
  { Constraint("ne", { j }, ord(c) - 97, 0) :
      c \in derived.guess_character_not_in_answer, j \in slots }
  \cup
  { Constraint("ne", { t[1] }, ord(t[2]) - 97, 0) :
      t \in derived.guess_character_in_answer_at_most }
  \cup
  \* one cardinality constraint per character (letters_processed): the
  \* records of one character all carry the same count
  { Constraint("atmost", slots, ord(t[2]) - 97, t[3]) :
      t \in derived.guess_character_in_answer_at_most }

\* The assignment that spells a word, and the word an assignment spells.
Encode(word) == [ i \in DOMAIN word |-> ord(word[i]) - 97 ]

get_current_model_word(model) ==
  [ i \in DOMAIN model |-> alphabet[model[i] + 1] ]

\* ----------------------------------------------------------- the words
sheer == << "s", "h", "e", "e", "r" >>
eerie == << "e", "e", "r", "i", "e" >>
lolly == << "l", "o", "l", "l", "y" >>
allot == << "a", "l", "l", "o", "t" >>
civic == << "c", "i", "v", "i", "c" >>
knoll == << "k", "n", "o", "l", "l" >>
handy == << "h", "a", "n", "d", "y" >>
swift == << "s", "w", "i", "f", "t" >>
glove == << "g", "l", "o", "v", "e" >>
crump == << "c", "r", "u", "m", "p" >>
igloo == << "i", "g", "l", "o", "o" >>
tea == << "t", "e", "a" >>

NORVIG_GUESSES == << handy, swift, glove, crump >>

\* The vocabulary the session imports: a sample of the two word lists, with
\* one word that is not of ANSWER_LEN letters.
ANSWERS == << allot, civic, eerie, handy, sheer >>
VALID_GUESSES == << crump, glove, igloo, lolly, swift, tea >>
COMMON_WORDS == ANSWERS \o VALID_GUESSES

\* The secrets an evaluator may hold: the vocabulary's words of ANSWER_LEN
\* letters and one word outside the vocabulary.
SECRETS ==
  { w \in Range(COMMON_WORDS) : Len(w) = ANSWER_LEN } \cup { knoll }

\* The words whose conjunction is in all_words_disjunction, as assignments.
all_words_disjunction ==
  { Encode(w) : w \in { v \in Range(COMMON_WORDS) : Len(v) = ANSWER_LEN } }

\* The assignments that satisfy the word disjunction and the hard constraints.
Models(hard) ==
  { m \in all_words_disjunction : \A c \in hard : Holds(m, c) }

\* The weight of the soft constraints an assignment violates: Distinct over
\* the letters, and AtMost 2 for each letter of the alphabet.
Penalty(m) ==
  SOFT_WEIGHT *
    ( (IF \A i, j \in DOMAIN m : i # j => m[i] # m[j] THEN 0 ELSE 1)
      + Cardinality({ v \in 0 .. 25 :
                        Cardinality({ i \in DOMAIN m : m[i] = v }) > 2 }) )

\* solver.check() of z3.Optimize: soft constraints never make it unsat.
\* Variant: the soft preferences are asserted as hard constraints.
check_mut(hard) ==
  IF \E m \in Models(hard) : Penalty(m) = 0 THEN "sat" ELSE "unsat"

check(hard) == IF Models(hard) = {} THEN "unsat" ELSE "sat"

\* solver.model(): any satisfying assignment of least penalty.
model(hard) ==
  { m \in Models(hard) : \A o \in Models(hard) : Penalty(m) <= Penalty(o) }

\* all(item["result"] == "correct" for item in guess_result)
\* Variant: the outcome is compared with a misspelt "Correct".
IsWin_mut(r) == \A i \in DOMAIN r : r[i].result = "Correct"

IsWin(r) == \A i \in DOMAIN r : r[i].result = "correct"

\* ------------------------------------------------------------ the state
VARIABLES
  \* the interpreter specification: one call of process_guess_result
  i_pc, i_guess, i_secret, i_result, i_derived,
  \* the session specification: one run of solve_wordle_api_norvig
  pc,                \* "opening", "adaptive" or "done"
  norvig_guesses,    \* NORVIG_GUESSES
  valid_guess_count, \* VALID_GUESS_COUNT
  evaluator,         \* "truthful" or "contradictory"
  secret,            \* the word a truthful evaluator answers for
  next_opening,      \* index of the next opening guess
  guessed,           \* the list guessed
  solver,            \* the hard constraints added after the word disjunction
  answers,           \* what make_guess returned, call by call
  submitted,         \* the words passed to make_guess, in order
  outcome,           \* how the run ended
  returned           \* the function's return value

interp_vars == << i_pc, i_guess, i_secret, i_result, i_derived >>

session_vars ==
  << pc, norvig_guesses, valid_guess_count, evaluator, secret, next_opening, guessed,
     solver, answers, submitted, outcome, returned >>

vars == << interp_vars, session_vars >>

\* --------------------------------------- the interpreter specification
Letters == { alphabet[k] : k \in 1 .. AlphabetBound }

InterpWords == UNION { [ 1 .. n -> Letters ] : n \in 1 .. MaxWordLen }

\* The documented examples, as (guess, secret).
Examples == { << sheer, eerie >>, << lolly, allot >> }

\* The value of i_derived before the call.
NotDerived ==
  [ guess_character_not_in_answer |-> {},
    guess_character_in_answer_right_position |-> << >>,
    guess_character_in_answer_wrong_position |-> << >>,
    guess_character_in_answer_at_most |-> {} ]

\* What the function has returned: nothing yet, None, or a Result.
NotReturned == [ type |-> "running", guesses |-> << >> ]
ReturnNone == [ type |-> "None", guesses |-> << >> ]
Result(guesses) == [ type |-> "Result", guesses |-> guesses ]

SessionIdle ==
  /\ pc = "idle" /\ norvig_guesses = << >> /\ valid_guess_count = 0
  /\ evaluator = "none" /\ secret = None /\ next_opening = 0
  /\ guessed = << >> /\ solver = {} /\ answers = << >>
  /\ submitted = << >> /\ outcome = "running" /\ returned = NotReturned

InterpInit ==
  /\ SessionIdle
  /\ i_pc = "start"
  /\ i_result = None
  /\ i_derived = NotDerived
  /\ \/ /\ i_guess \in InterpWords
        /\ i_secret \in { w \in InterpWords : Len(w) = Len(i_guess) } \cup { None }
     \/ \E e \in Examples : i_guess = e[1] /\ i_secret = e[2]

\* The evaluator answers truthfully for i_secret.
InterpTruthful ==
  /\ i_pc = "start"
  /\ i_secret # None
  /\ i_result' = Feedback(i_guess, i_secret)
  /\ i_pc' = "answered"
  /\ UNCHANGED << i_guess, i_secret, i_derived, session_vars >>

\* The evaluator answers with any outcome for every slot.
InterpArbitrary ==
  /\ i_pc = "start"
  /\ i_secret = None
  /\ \E o \in [ DOMAIN i_guess -> Outcomes ] :
       i_result' = FeedbackOf(i_guess, o)
  /\ i_pc' = "answered"
  /\ UNCHANGED << i_guess, i_secret, i_derived, session_vars >>

\* The call process_guess_result(guess, guess_result).
InterpDerive ==
  /\ i_pc = "answered"
  /\ i_derived' = process_guess_result(i_guess, i_result)
  /\ i_pc' = "derived"
  /\ UNCHANGED << i_guess, i_secret, i_result, session_vars >>

InterpNext == InterpTruthful \/ InterpArbitrary \/ InterpDerive

InterpSpec == InterpInit /\ [][InterpNext]_vars

\* ------------------------------------------- claims on the interpreter
\* C1 (soundness): when the answer is the truthful feedback of the guess
\* against the secret, the secret satisfies every derived constraint: it has c
\* at every fixed slot; for a present (i, c) it has c at another slot and not
\* at i; it holds no excluded character; for a bounded (i, c, k) it has at
\* most k occurrences of c and none at i; and its assignment satisfies every
\* solver constraint the session adds for the derived set.
Soundness ==
  (i_pc = "derived" /\ i_secret # None) =>
    LET d == i_derived
        S == i_secret
    IN /\ \A p \in Range(d.guess_character_in_answer_right_position) :
            S[p[1] + 1] = p[2]
       /\ \A p \in Range(d.guess_character_in_answer_wrong_position) :
            /\ S[p[1] + 1] # p[2]
            /\ \E j \in DOMAIN S : j # p[1] + 1 /\ S[j] = p[2]
       /\ \A c \in d.guess_character_not_in_answer : c \notin Range(S)
       /\ \A t \in d.guess_character_in_answer_at_most :
            /\ Count(S, t[2]) <= t[3]
            /\ S[t[1] + 1] # t[2]
       /\ \A c \in AddedConstraints(Len(S), d) : Holds(Encode(S), c)

\* A truthful answer that yields all four categories at once.
SoundnessWitness ==
  /\ i_pc = "derived"
  /\ i_secret # None
  /\ i_derived.guess_character_in_answer_right_position # << >>
  /\ i_derived.guess_character_in_answer_wrong_position # << >>
  /\ i_derived.guess_character_not_in_answer # {}
  /\ i_derived.guess_character_in_answer_at_most # {}

\* C2 (no false exclusion): for every guess and every answer, a character is
\* in guess_character_not_in_answer only if every one of its records is
\* absent; a character with a correct or present record is never excluded.
NoFalseExclusion ==
  i_pc = "derived" =>
    \A c \in i_derived.guess_character_not_in_answer :
      /\ \E i \in DOMAIN i_result : i_result[i].guess = c
      /\ \A i \in DOMAIN i_result :
           i_result[i].guess = c => i_result[i].result = "absent"

\* An arbitrary answer with an absent record of a character that another
\* record proves, beside a character that is excluded.
NoFalseExclusionWitness ==
  /\ i_pc = "derived"
  /\ i_secret = None
  /\ i_derived.guess_character_not_in_answer # {}
  /\ \E i, j \in DOMAIN i_result :
       /\ i_result[i].guess = i_result[j].guess
       /\ i_result[i].result = "absent"
       /\ i_result[j].result \in { "correct", "present" }

\* C10 as stated: sheer against eerie yields a bounded-count record for "e"
\* and does not exclude "e".
SheerEerieBoundedCount ==
  (i_pc = "derived" /\ i_guess = sheer /\ i_secret = eerie) =>
    /\ \E t \in i_derived.guess_character_in_answer_at_most : t[2] = "e"
    /\ "e" \notin i_derived.guess_character_not_in_answer

\* C10 (amended): sheer against eerie does not exclude "e", and yields no
\* bounded-count record at all: eerie has three "e", so both "e" of sheer are
\* present and the derived set holds present-elsewhere (2, e), (3, e), (4, r)
\* and the exclusion of "s" and "h".
SheerEerieDerived ==
  (i_pc = "derived" /\ i_guess = sheer /\ i_secret = eerie) =>
    /\ "e" \notin i_derived.guess_character_not_in_answer
    /\ i_derived.guess_character_in_answer_at_most = {}
    /\ i_derived.guess_character_in_answer_wrong_position
         = << << 2, "e" >>, << 3, "e" >>, << 4, "r" >> >>
    /\ i_derived.guess_character_in_answer_right_position = << >>
    /\ i_derived.guess_character_not_in_answer = { "s", "h" }

SheerEerieWitness ==
  i_pc = "derived" /\ i_guess = sheer /\ i_secret = eerie

\* ------------------------------------------- the session specification
InterpIdle ==
  /\ i_pc = "idle" /\ i_guess = None /\ i_secret = None
  /\ i_result = None /\ i_derived = NotDerived

\* The state after "guessed = []": the solver holds the word disjunction
\* and the soft preferences only.
Init ==
  /\ InterpIdle
  /\ \E n \in 0 .. MaxOpening :
       /\ n <= Len(NORVIG_GUESSES)
       /\ norvig_guesses = SubSeq(NORVIG_GUESSES, 1, n)
  /\ valid_guess_count \in 1 .. MaxBudget
  /\ \/ evaluator = "truthful" /\ secret \in SECRETS
     \/ evaluator = "contradictory" /\ secret = None
  /\ pc = "opening"
  /\ next_opening = 1
  /\ guessed = << >>
  /\ solver = {}
  /\ answers = << >>
  /\ submitted = << >>
  /\ outcome = "running"
  /\ returned = NotReturned

\* The lists make_guess(word) may return when the request succeeds: the
\* truthful feedback for the secret, or, from a contradictory evaluator, the
\* feedback for any secret, chosen anew at every call.
make_guess(word) ==
  IF evaluator = "truthful" THEN { Feedback(word, secret) }
  ELSE { Feedback(word, s) : s \in SECRETS }

\* The solver after the constraints of one answered guess are added.
\* Variant: the solver is created anew for every guess.
merge_mut(hard, guess, r) ==
  AddedConstraints(ANSWER_LEN, process_guess_result(guess, r))

merge(hard, guess, r) ==
  hard \cup AddedConstraints(ANSWER_LEN, process_guess_result(guess, r))

\* while len(guessed) < VALID_GUESS_COUNT
\* Variant: <= for <.
attempts_remain_mut(g, count) == Len(g) <= count

attempts_remain(g, count) == Len(g) < count

\* The function returns: pc, outcome and returned are set.
Return(how, value) ==
  /\ pc' = "done"
  /\ outcome' = how
  /\ returned' = value

\* for norvig_guess in NORVIG_GUESSES: make_guess fails, return None.
OpeningFail ==
  /\ pc = "opening"
  /\ next_opening <= Len(norvig_guesses)
  /\ submitted' = Append(submitted, norvig_guesses[next_opening])
  /\ answers' = Append(answers, None)
  /\ Return("TransportFailure", ReturnNone)
  /\ UNCHANGED << norvig_guesses, valid_guess_count, evaluator, secret,
                  next_opening, guessed, solver, interp_vars >>

\* Variant: the win is tested before the guess is appended.
OpeningWin_unrecorded ==
  /\ pc = "opening"
  /\ next_opening <= Len(norvig_guesses)
  /\ \E r \in make_guess(norvig_guesses[next_opening]) :
       /\ IsWin(r)
       /\ answers' = Append(answers, r)
  /\ submitted' = Append(submitted, norvig_guesses[next_opening])
  /\ Return("Won", Result(guessed))
  /\ UNCHANGED << norvig_guesses, valid_guess_count, evaluator, secret,
                  next_opening, guessed, solver, interp_vars >>

\* ... the answer is all correct: return Result(guessed, ...).
OpeningWin ==
  /\ pc = "opening"
  /\ next_opening <= Len(norvig_guesses)
  /\ \E r \in make_guess(norvig_guesses[next_opening]) :
       /\ IsWin(r)
       /\ answers' = Append(answers, r)
  /\ submitted' = Append(submitted, norvig_guesses[next_opening])
  /\ guessed' = Append(guessed, norvig_guesses[next_opening])
  /\ Return("Won", Result(guessed'))
  /\ UNCHANGED << norvig_guesses, valid_guess_count, evaluator, secret,
                  next_opening, solver, interp_vars >>

\* ... otherwise the answer's constraints are added and the loop goes on.
OpeningMerge ==
  /\ pc = "opening"
  /\ next_opening <= Len(norvig_guesses)
  /\ \E r \in make_guess(norvig_guesses[next_opening]) :
       /\ ~IsWin(r)
       /\ answers' = Append(answers, r)
       /\ solver' = merge(solver, norvig_guesses[next_opening], r)
  /\ submitted' = Append(submitted, norvig_guesses[next_opening])
  /\ guessed' = Append(guessed, norvig_guesses[next_opening])
  /\ next_opening' = next_opening + 1
  /\ UNCHANGED << pc, outcome, returned, norvig_guesses, valid_guess_count,
                  evaluator, secret, interp_vars >>

\* Variant: the loop is left after its first answered guess.
OpeningDone_early ==
  /\ pc = "opening"
  /\ (next_opening > Len(norvig_guesses) \/ next_opening > 1)
  /\ pc' = "adaptive"
  /\ UNCHANGED << outcome, returned, norvig_guesses, valid_guess_count,
                  evaluator, secret, next_opening, guessed, solver,
                  answers, submitted, interp_vars >>

\* The for loop is exhausted: "Norvig's guesses complete".
OpeningDone ==
  /\ pc = "opening"
  /\ next_opening > Len(norvig_guesses)
  /\ pc' = "adaptive"
  /\ UNCHANGED << outcome, returned, norvig_guesses, valid_guess_count,
                  evaluator, secret, next_opening, guessed, solver,
                  answers, submitted, interp_vars >>

\* while len(guessed) < VALID_GUESS_COUNT: the condition is false.
AdaptiveExhausted ==
  /\ pc = "adaptive"
  /\ ~(attempts_remain(guessed, valid_guess_count))
  /\ Return("Exhausted", Result(guessed))
  /\ UNCHANGED << norvig_guesses, valid_guess_count, evaluator, secret,
                  next_opening, guessed, solver, answers, submitted,
                  interp_vars >>

\* check_sat != z3.sat: break.
\* Variant: return None, as the opening loop does on a failure.
AdaptiveUnsat_return_none ==
  /\ pc = "adaptive"
  /\ attempts_remain(guessed, valid_guess_count)
  /\ check(solver) # "sat"
  /\ Return("Unsolvable", ReturnNone)
  /\ UNCHANGED << norvig_guesses, valid_guess_count, evaluator, secret,
                  next_opening, guessed, solver, answers, submitted,
                  interp_vars >>

\* Variant: continue for break.
AdaptiveUnsat_continue ==
  /\ pc = "adaptive"
  /\ attempts_remain(guessed, valid_guess_count)
  /\ check(solver) # "sat"
  /\ UNCHANGED vars

AdaptiveUnsat ==
  /\ pc = "adaptive"
  /\ attempts_remain(guessed, valid_guess_count)
  /\ check(solver) # "sat"
  /\ Return("Unsolvable", Result(guessed))
  /\ UNCHANGED << norvig_guesses, valid_guess_count, evaluator, secret,
                  next_opening, guessed, solver, answers, submitted,
                  interp_vars >>

\* The guess is appended, make_guess fails: break.
AdaptiveFail ==
  /\ pc = "adaptive"
  /\ attempts_remain(guessed, valid_guess_count)
  /\ check(solver) = "sat"
  /\ \E m \in model(solver) :
       /\ guessed' = Append(guessed, get_current_model_word(m))
       /\ submitted' = Append(submitted, get_current_model_word(m))
  /\ answers' = Append(answers, None)
  /\ Return("TransportFailure", Result(guessed'))
  /\ UNCHANGED << norvig_guesses, valid_guess_count, evaluator, secret,
                  next_opening, solver, interp_vars >>

\* The answer is all correct: break.
AdaptiveWin ==
  /\ pc = "adaptive"
  /\ attempts_remain(guessed, valid_guess_count)
  /\ check(solver) = "sat"
  /\ \E m \in model(solver) :
       /\ guessed' = Append(guessed, get_current_model_word(m))
       /\ submitted' = Append(submitted, get_current_model_word(m))
       /\ \E r \in make_guess(get_current_model_word(m)) :
            /\ IsWin(r)
            /\ answers' = Append(answers, r)
  /\ Return("Won", Result(guessed'))
  /\ UNCHANGED << norvig_guesses, valid_guess_count, evaluator, secret,
                  next_opening, solver, interp_vars >>

\* Otherwise the answer's constraints are added and the loop goes on.
AdaptiveMerge ==
  /\ pc = "adaptive"
  /\ attempts_remain(guessed, valid_guess_count)
  /\ check(solver) = "sat"
  /\ \E m \in model(solver) :
       /\ guessed' = Append(guessed, get_current_model_word(m))
       /\ submitted' = Append(submitted, get_current_model_word(m))
       /\ \E r \in make_guess(get_current_model_word(m)) :
            /\ ~IsWin(r)
            /\ answers' = Append(answers, r)
            /\ solver' = merge(solver, get_current_model_word(m), r)
  /\ UNCHANGED << pc, outcome, returned, norvig_guesses, valid_guess_count,
                  evaluator, secret, next_opening, interp_vars >>

Next ==
  \/ OpeningFail
  \/ OpeningWin
  \/ OpeningMerge
  \/ OpeningDone
  \/ AdaptiveExhausted
  \/ AdaptiveUnsat
  \/ AdaptiveFail
  \/ AdaptiveWin
  \/ AdaptiveMerge

Spec == Init /\ [][Next]_vars

\* The run is sequential and every call returns: a step that can be taken is
\* taken.
FairSpec == Spec /\ WF_vars(Next)

\* --------------------------------------------- claims on the session
\* The vocabulary words of ANSWER_LEN letters that satisfy the hard
\* constraints.
WordsAdmitted(hard) ==
  { w \in Range(COMMON_WORDS) :
      Len(w) = ANSWER_LEN /\ \A c \in hard : Holds(Encode(w), c) }

AllCorrect(r) == r # None /\ \A i \in DOMAIN r : r[i].result = "correct"

\* C3 (win detection): in either phase, once a guess has received an answer
\* that is all correct the session is over in Won, that guess is the last of
\* the reported guesses, and nothing is submitted afterwards.
WinDetection ==
  /\ [](\A k \in DOMAIN answers :
         AllCorrect(answers[k]) =>
           /\ k = Len(answers)
           /\ pc = "done"
           /\ outcome = "Won"
           /\ returned.type = "Result"
           /\ returned.guesses # << >>
           /\ Last(returned.guesses) = submitted[k]
           /\ Len(submitted) = k)
  /\ [][outcome = "Won" => submitted' = submitted]_vars

\* A win in the opening phase and a win in the adaptive phase.
WinDetectionWitness ==
  /\ outcome = "Won"
  /\ Len(guessed) > Len(norvig_guesses)
  /\ Len(norvig_guesses) > 0

\* C4 (unsatisfiable termination): when the adaptive loop asks for a candidate
\* and no vocabulary word satisfies the hard constraints, the very next step
\* ends the session in Unsolvable without submitting a guess, and the guesses
\* made so far are what is returned.
UnsatTermination ==
  [][ ( /\ pc = "adaptive"
        /\ Len(guessed) < valid_guess_count
        /\ WordsAdmitted(solver) = {} )
      => ( /\ pc' = "done"
           /\ outcome' = "Unsolvable"
           /\ submitted' = submitted
           /\ guessed' = guessed
           /\ returned' = Result(guessed) ) ]_vars

UnsatTerminationWitness ==
  /\ outcome = "Unsolvable"
  /\ pc = "done"
  /\ Len(guessed) > Len(norvig_guesses)
  /\ returned = Result(guessed)

\* C5 as stated: whenever make_guess fails, in either phase, the session
\* stops and what the caller receives carries the guesses made so far.
TransportFailureReported ==
  outcome = "TransportFailure" =>
    /\ pc = "done"
    /\ returned.type = "Result"
    /\ returned.guesses = guessed

\* C6 (termination): every session reaches a terminal outcome.
Termination ==
  <>(pc = "done" /\ outcome \in { "Won", "Exhausted", "Unsolvable",
                                  "TransportFailure" })

\* A session that ran through both loops to the end of its budget.
TerminationWitness ==
  /\ pc = "done"
  /\ outcome = "Exhausted"
  /\ Len(guessed) > Len(norvig_guesses)
  /\ Len(norvig_guesses) > 0

\* C7 as stated: for every opening list and every budget, the guesses
\* submitted never exceed the budget, and an Exhausted session has made
\* exactly budget-many guesses.
AttemptBudgetAnyOpening ==
  /\ Len(submitted) <= valid_guess_count
  /\ outcome = "Exhausted" => Len(submitted) = valid_guess_count

\* C7 (amended): when the opening list is no longer than the budget, the
\* guesses submitted never exceed the budget, and an Exhausted session has
\* made exactly budget-many guesses, none of them all correct.
AttemptBudget ==
  Len(norvig_guesses) <= valid_guess_count =>
    /\ Len(submitted) <= valid_guess_count
    /\ Len(guessed) <= valid_guess_count
    /\ outcome = "Exhausted" =>
         /\ Len(submitted) = valid_guess_count
         /\ guessed = submitted
         /\ Len(answers) = valid_guess_count
         /\ \A k \in DOMAIN answers :
              answers[k] # None /\ ~AllCorrect(answers[k])

AttemptBudgetWitness ==
  /\ outcome = "Exhausted"
  /\ Len(norvig_guesses) > 0
  /\ Len(norvig_guesses) < valid_guess_count
  /\ Len(submitted) = valid_guess_count

\* C8 (monotonic shrinkage): no step of a session removes a hard constraint,
\* and the vocabulary words that satisfy the constraints after a step are
\* among those that satisfied them before it.
MonotonicShrinkage ==
  [][ /\ solver \subseteq solver'
      /\ WordsAdmitted(solver') \subseteq WordsAdmitted(solver) ]_vars

\* Two merges have happened and words are still admitted.
MonotonicShrinkageWitness ==
  /\ Len(guessed) >= 2
  /\ Len(answers) = Len(guessed)
  /\ ~AllCorrect(Last(answers))
  /\ Last(answers) # None
  /\ WordsAdmitted(solver) # {}
  /\ WordsAdmitted(solver) # WordsAdmitted({})

\* C9 (legality, non-binding preferences): a step of the adaptive loop with
\* attempts left ends in Unsolvable exactly when no vocabulary word satisfies
\* the hard constraints; otherwise it submits a candidate, which is a
\* vocabulary word of ANSWER_LEN letters satisfying every hard constraint
\* merged before it, also when all such words repeat a letter.
CandidateLegality ==
  [][ ( pc = "adaptive" /\ Len(guessed) < valid_guess_count )
      => /\ (outcome' = "Unsolvable") <=> (WordsAdmitted(solver) = {})
         /\ WordsAdmitted(solver) # {} =>
              /\ guessed' # guessed
              /\ guessed' = Append(guessed, Last(guessed'))
              /\ submitted' = Append(submitted, Last(guessed'))
              /\ Last(guessed') \in Range(COMMON_WORDS)
              /\ Len(Last(guessed')) = ANSWER_LEN
              /\ Last(guessed') \in WordsAdmitted(solver) ]_vars

\* An adaptive candidate with a letter three times: every word admitted then
\* repeated a letter.
CandidateLegalityWitness ==
  /\ Len(guessed) > Len(norvig_guesses)
  /\ Last(guessed) = eerie
  /\ Len(answers) = Len(guessed)

\* ------------------------------- further claims on the interpreter
\* The records of answer r for character c with an outcome in a set.
SlotsOf(r, c, outcomes) ==
  { i \in DOMAIN r : r[i].guess = c /\ r[i].result \in outcomes }

\* The cardinality constraints the session adds for a derived set.
CardinalityAdded(n, derived) ==
  { con \in AddedConstraints(n, derived) : con.op = "atmost" }

\* C11 as stated: guess_character_in_answer_at_most holds at most one record
\* per character.
BoundedCountOnePerCharacter ==
  i_pc = "derived" =>
    \A t, u \in i_derived.guess_character_in_answer_at_most :
      t[2] = u[2] => t = u

\* C11 (amended): guess_character_in_answer_at_most holds one record for every
\* absent slot of a character proven elsewhere, several when the character has
\* several absent slots; the records of one character carry the same count,
\* and the session adds one cardinality constraint per character.
BoundedCountOnePerAbsentSlot ==
  i_pc = "derived" =>
    LET am == i_derived.guess_character_in_answer_at_most
        proven == { "correct", "present" }
    IN /\ \A t, u \in am : t[2] = u[2] => t[3] = u[3]
       /\ \A c \in Range(i_guess) :
            SlotsOf(i_result, c, proven) # {} =>
              { t[1] + 1 : t \in { u \in am : u[2] = c } }
                = SlotsOf(i_result, c, { "absent" })
       /\ \A t \in am : SlotsOf(i_result, t[2], proven) # {}
       /\ Cardinality(CardinalityAdded(Len(i_guess), i_derived))
            = Cardinality({ t[2] : t \in am })

\* A truthful answer with two absent slots of a character proven elsewhere.
BoundedCountWitness ==
  /\ i_pc = "derived"
  /\ i_secret # None
  /\ \E t, u \in i_derived.guess_character_in_answer_at_most :
       t[2] = u[2] /\ t[1] # u[1]

\* ----------------------------------- further claims on the session
\* C13 (reported history): a session that ends in Won, Exhausted or
\* Unsolvable returns exactly the words submitted to the evaluator, in
\* submission order; and a step of the session leaves the guess list as it
\* is or appends one word to it.
ReportedHistory ==
  /\ [](outcome \in { "Won", "Exhausted", "Unsolvable" } =>
          /\ returned.type = "Result"
          /\ returned.guesses = submitted
          /\ returned.guesses = guessed)
  /\ [][ \/ guessed' = guessed
         \/ /\ Len(guessed') = Len(guessed) + 1
            /\ SubSeq(guessed', 1, Len(guessed)) = guessed
            /\ submitted' = Append(submitted, Last(guessed')) ]_vars

\* A win in the opening phase after an earlier opening guess.
ReportedHistoryWitness ==
  /\ outcome = "Won"
  /\ Len(returned.guesses) = Len(norvig_guesses)
  /\ Len(returned.guesses) >= 2

\* C14 (opening order): the words submitted begin with a prefix of the
\* opening list, in list order, whatever the answers are; and the adaptive
\* loop, where the solver is asked for a candidate, is entered only after
\* every opening guess was submitted and answered, none all correct.
OpeningOrder ==
  /\ \A k \in DOMAIN submitted :
       k <= Len(norvig_guesses) => submitted[k] = norvig_guesses[k]
  /\ (pc = "adaptive" \/ Len(submitted) > Len(norvig_guesses)) =>
       /\ Len(submitted) >= Len(norvig_guesses)
       /\ \A k \in DOMAIN norvig_guesses :
            answers[k] # None /\ ~AllCorrect(answers[k])
  /\ pc = "opening" => Len(submitted) = next_opening - 1

\* An adaptive guess was submitted after the whole opening list of four.
OpeningOrderWitness ==
  /\ Len(norvig_guesses) = Len(NORVIG_GUESSES)
  /\ Len(submitted) > Len(norvig_guesses)

\* A step that merges the constraints of an answered guess that did not win.
MergeStep ==
  /\ Len(answers') = Len(answers) + 1
  /\ Last(answers') # None
  /\ ~AllCorrect(Last(answers'))

\* C15 as stated: every merge, after an opening or an adaptive guess, leaves
\* no admitted word or strictly fewer admitted words than before.
StrictShrinkageEveryMerge ==
  [][ MergeStep =>
        \/ WordsAdmitted(solver') = {}
        \/ /\ WordsAdmitted(solver') \subseteq WordsAdmitted(solver)
           /\ WordsAdmitted(solver') # WordsAdmitted(solver) ]_vars

\* C15 (amended): every merge after an adaptive guess makes the set of
\* admitted words strictly smaller (the guess itself leaves it); a merge
\* after an opening guess never enlarges the set but may leave it as it was.
StrictShrinkageAdaptive ==
  [][ MergeStep =>
        /\ WordsAdmitted(solver') \subseteq WordsAdmitted(solver)
        /\ pc = "adaptive" =>
             /\ WordsAdmitted(solver') # WordsAdmitted(solver)
             /\ Last(submitted') \in WordsAdmitted(solver)
             /\ Last(submitted') \notin WordsAdmitted(solver') ]_vars

\* An opening merge has left the admitted words as they were, and an adaptive
\* merge followed.
StrictShrinkageWitness ==
  /\ Len(answers) > Len(norvig_guesses)
  /\ Len(norvig_guesses) >= 2
  /\ Last(answers) # None
  /\ ~AllCorrect(Last(answers))
  /\ \E k \in 2 .. Len(norvig_guesses) :
       LET upto(j) == UNION { AddedConstraints(ANSWER_LEN,
                                process_guess_result(submitted[i], answers[i])) :
                              i \in 1 .. j }
       IN /\ WordsAdmitted(upto(k)) = WordsAdmitted(upto(k - 1))
          /\ WordsAdmitted(upto(k)) # {}

\* ------------------- claims on the merge of one answer (interpreter)
\* The words a solver admits after one merge: the words of the guess's length,
\* from the vocabulary and from the bounded words, that satisfy the
\* constraints added for the derived set.
AdmittedAfter(guess, derived) ==
  { w \in { v \in InterpWords \cup Range(COMMON_WORDS) : Len(v) = Len(guess) } :
      \A con \in AddedConstraints(Len(guess), derived) :
        Holds(Encode(w), con) }

CategoriesOf(guess, derived, i) ==
  { cat \in { "not_in_answer", "right_position", "wrong_position", "at_most" } :
      \/ /\ cat = "right_position"
         /\ << i - 1, guess[i] >>
              \in Range(derived.guess_character_in_answer_right_position)
      \/ /\ cat = "wrong_position"
         /\ << i - 1, guess[i] >>
              \in Range(derived.guess_character_in_answer_wrong_position)
      \/ /\ cat = "at_most"
         /\ \E t \in derived.guess_character_in_answer_at_most :
              t[1] = i - 1 /\ t[2] = guess[i]
      \/ /\ cat = "not_in_answer"
         /\ guess[i] \in derived.guess_character_not_in_answer }

\* C17: for every guess and every answer with one record per slot, no
\* (slot, character) pair is both in right_position and in wrong_position,
\* every slot contributes to at most one of the four categories, every record
\* of the derived set comes from a slot of the guess, and every at_most record
\* (slot, c, k) has k equal to the number of correct or present slots of c and
\* k smaller than the number of occurrences of c in the guess.
DerivedSetInvariant ==
  i_pc = "derived" =>
    LET d == i_derived IN
    /\ Range(d.guess_character_in_answer_right_position)
         \cap Range(d.guess_character_in_answer_wrong_position) = {}
    /\ \A i \in DOMAIN i_guess :
         Cardinality(CategoriesOf(i_guess, d, i)) <= 1
    /\ \A p \in Range(d.guess_character_in_answer_right_position)
                  \cup Range(d.guess_character_in_answer_wrong_position) :
         /\ p[1] + 1 \in DOMAIN i_guess
         /\ i_guess[p[1] + 1] = p[2]
    /\ \A t \in d.guess_character_in_answer_at_most :
         /\ t[1] + 1 \in DOMAIN i_guess
         /\ i_guess[t[1] + 1] = t[2]
         /\ t[3] = Cardinality(SlotsOf(i_result, t[2], { "correct", "present" }))
         /\ t[3] > 0
         /\ t[3] < Count(i_guess, t[2])

\* A derived set with all four categories filled: lolly against allot gives a
\* right_position, two wrong_position, one at_most and one not_in_answer.
DerivedSetInvariantWitness ==
  /\ i_pc = "derived"
  /\ i_derived.guess_character_in_answer_right_position # << >>
  /\ i_derived.guess_character_in_answer_wrong_position # << >>
  /\ i_derived.guess_character_in_answer_at_most # {}
  /\ i_derived.guess_character_not_in_answer # {}
  /\ \A i \in DOMAIN i_guess :
       Cardinality(CategoriesOf(i_guess, i_derived, i)) = 1

\* ------------------------------------- claims on the secret and the guesses
\* The vocabulary words of ANSWER_LEN letters.
Vocabulary == { w \in Range(COMMON_WORDS) : Len(w) = ANSWER_LEN }

\* C18: if the secret is a vocabulary word and every guess is answered
\* truthfully, then after any sequence of opening and adaptive merges the
\* secret satisfies every hard constraint of the solver, and the session does
\* not end in Unsolvable.
SecretNeverEliminated ==
  (evaluator = "truthful" /\ secret \in Vocabulary) =>
    /\ \A con \in solver : Holds(Encode(secret), con)
    /\ secret \in WordsAdmitted(solver)
    /\ check(solver) = "sat"
    /\ outcome # "Unsolvable"

\* A truthful session on a vocabulary secret that has merged opening and
\* adaptive answers, one of them with a count bound on a letter of the secret.
SecretNeverEliminatedWitness ==
  /\ evaluator = "truthful"
  /\ secret \in Vocabulary
  /\ Len(norvig_guesses) >= 1
  /\ Len(answers) > Len(norvig_guesses)
  /\ Last(answers) # None
  /\ ~AllCorrect(Last(answers))
  /\ \E t \in process_guess_result(Last(submitted), Last(answers))
                .guess_character_in_answer_at_most :
       Count(secret, t[2]) = t[3]
  /\ solver # {}

\* C19: once the answer of a guess that did not win is merged, the guessed
\* word no longer satisfies the solver, so no adaptive guess equals a word
\* submitted earlier in the session, in the opening or in the adaptive phase.
NoRepeatedGuess ==
  /\ \A k \in DOMAIN answers :
       (answers[k] # None /\ ~AllCorrect(answers[k])) =>
         /\ submitted[k] \notin WordsAdmitted(solver)
         /\ \E con \in solver : ~Holds(Encode(submitted[k]), con)
  /\ \A k \in DOMAIN submitted :
       k > Len(norvig_guesses) =>
         \A j \in 1 .. (k - 1) : submitted[j] # submitted[k]

\* A session that has merged the answers of an opening guess and of two
\* adaptive guesses, none of them winning.
NoRepeatedGuessWitness ==
  /\ Len(norvig_guesses) >= 1
  /\ Len(answers) >= Len(norvig_guesses) + 2
  /\ \A k \in DOMAIN answers : answers[k] # None /\ ~AllCorrect(answers[k])
  /\ pc = "adaptive"

\* C20: if the secret is a vocabulary word, every guess is answered
\* truthfully, and the budget less the opening guesses is at least the number
\* of vocabulary words, then the session ends, and unless a guess went
\* unanswered it ends in Won with the secret as the last reported guess: it
\* ends neither in Exhausted nor in Unsolvable.
Convergence ==
  ( /\ evaluator = "truthful"
    /\ secret \in Vocabulary
    /\ valid_guess_count - Len(norvig_guesses) >= Cardinality(Vocabulary) )
  => <>( /\ pc = "done"
         /\ \/ \E k \in DOMAIN answers : answers[k] = None
            \/ /\ outcome = "Won"
               /\ returned.type = "Result"
               /\ Last(returned.guesses) = secret
               /\ Last(submitted) = secret )

\* A session under the premises of C20 that went through opening guesses and
\* more than one adaptive guess, every guess answered, and won on the secret.
ConvergenceWitness ==
  /\ evaluator = "truthful"
  /\ secret \in Vocabulary
  /\ valid_guess_count - Len(norvig_guesses) >= Cardinality(Vocabulary)
  /\ Len(norvig_guesses) >= 1
  /\ Len(guessed) >= Len(norvig_guesses) + 2
  /\ \A k \in DOMAIN answers : answers[k] # None
  /\ pc = "done"
  /\ outcome = "Won"
  /\ Last(returned.guesses) = secret

====
